---- MODULE Spec2Model ----
(***************************************************************************)
(* A model of helpers.py of tibanna-scheduler: the batch selector          *)
(* (resolve_inputs with file_in_failed and get_subject_completed_set), the *)
(* grouping engine (group_inputs with prepend_path and basename) and the   *)
(* run auditor (process_postrun_files with move_logs_to_root and           *)
(* move_logs_to_folder).                                                   *)
(*                                                                         *)
(* A Python str is a sequence of one-character strings, so that split,     *)
(* strip, endswith, the substring test and the regular expression are      *)
(* computed character by character.  A value that the code inspects with   *)
(* isinstance (prepend_path, basename) is tagged: Str(s) or List(items).   *)
(* A file is its text (a str) or NoFile; the object store is a function    *)
(* from keys to contents.                                                  *)
(***************************************************************************)
EXTENDS Integers, Sequences, FiniteSets, TLC

VARIABLES manifest, fs, bucket, call, ret

vars == <<manifest, fs, bucket, call, ret>>

(***************************************************************************)
(* Bounds of the model.                                                    *)
(***************************************************************************)
MaxRows == 3
MaxBatch == 3
MaxCores == 3
NegCores == 2
MaxFiles == 3
MaxItems == 3
MaxLedgerLines == 3
MaxObjects == 3
MaxRuns == 2

(***************************************************************************)
(* Python's str operations.                                                *)
(***************************************************************************)
Min(a, b) == IF a <= b THEN a ELSE b

Max(a, b) == IF a >= b THEN a ELSE b

Range(s) == {s[i] : i \in DOMAIN s}

\* s.startswith(p)
StartsWith(s, p) ==
    /\ Len(p) <= Len(s)
    /\ SubSeq(s, 1, Len(p)) = p

\* s.endswith(p)
EndsWith(s, p) ==
    /\ Len(p) <= Len(s)
    /\ SubSeq(s, Len(s) - Len(p) + 1, Len(s)) = p

\* the 1-based positions at which sub occurs in s
Occurrences(s, sub) ==
    {i \in 1..(Len(s) - Len(sub) + 1) : SubSeq(s, i, i + Len(sub) - 1) = sub}

\* sub in s
Contains(s, sub) == Occurrences(s, sub) # {}

\* s.split(sep)[0]: the text before the first occurrence of sep
SplitFirst(s, sep) ==
    IF Occurrences(s, sep) = {}
    THEN s
    ELSE LET i == CHOOSE k \in Occurrences(s, sep) :
                      \A m \in Occurrences(s, sep) : k <= m
         IN SubSeq(s, 1, i - 1)

\* the position of the last occurrence of the character ch in s, 0 if none
LastIndex(s, ch) ==
    LET P == {i \in DOMAIN s : s[i] = ch}
    IN IF P = {} THEN 0 ELSE CHOOSE k \in P : \A m \in P : m <= k

\* s.split("/")[-1]
SplitLast(s) == SubSeq(s, LastIndex(s, "/") + 1, Len(s))

Whitespace == {" ", "\t", "\n", "\r"}

\* s.strip()
Strip(s) ==
    LET P == {i \in DOMAIN s : s[i] \notin Whitespace}
    IN IF P = {}
       THEN <<>>
       ELSE SubSeq(s, CHOOSE k \in P : \A m \in P : k <= m,
                      CHOOSE k \in P : \A m \in P : m <= k)

\* seq[:n] of Python, for any integer n
SliceTo(seq, n) ==
    LET stop == IF n < 0 THEN Max(Len(seq) + n, 0) ELSE Min(n, Len(seq))
    IN SubSeq(seq, 1, stop)

\* a % b of Python for b # 0: the result has the sign of b
PyMod(a, b) == IF b > 0 THEN a % b ELSE 0 - ((0 - a) % (0 - b))

\* os.path.basename(p)
PathBasename(p) == SubSeq(p, LastIndex(p, "/") + 1, Len(p))

\* os.path.splitext(p)[0]: p up to its last dot, unless that dot is before the
\* last "/" or only dots stand between the last "/" and it
SplitextRoot(p) ==
    LET sep == LastIndex(p, "/")
        dot == LastIndex(p, ".")
    IN IF dot > sep /\ \E i \in (sep + 1)..(dot - 1) : p[i] # "."
       THEN SubSeq(p, 1, dot - 1)
       ELSE p

(***************************************************************************)
(* Values that the code inspects with isinstance(x, str).                  *)
(***************************************************************************)
Str(s) == <<"str", s>>

List(items) == <<"list", items>>

IsStr(x) == x[1] = "str"

Val(x) == x[2]

\* a flat list of str as a tagged value
StrList(ss) == List([i \in DOMAIN ss |-> Str(ss[i])])

None == <<"None", <<>>>>

(***************************************************************************)
(* The grouping engine.                                                    *)
(***************************************************************************)
\* a path put after the file name instead of before it
RECURSIVE prepend_path_appends(_, _)
prepend_path_appends(nested_list, path) ==
    IF IsStr(nested_list)
    THEN Str(Val(nested_list) \o path)
    ELSE List([i \in DOMAIN Val(nested_list) |->
                  prepend_path_appends(Val(nested_list)[i], path)])

RECURSIVE prepend_path(_, _)
prepend_path(nested_list, path) ==
    IF IsStr(nested_list)
    THEN Str(path \o Val(nested_list))
    ELSE List([i \in DOMAIN Val(nested_list) |->
                  prepend_path(Val(nested_list)[i], path)])

RECURSIVE basename(_)
basename(nested_list) ==
    IF IsStr(nested_list)
    THEN Str(SplitextRoot(PathBasename(Val(nested_list))))
    ELSE List([i \in DOMAIN Val(nested_list) |-> basename(Val(nested_list)[i])])

\* range(0, n, step) for step > 0, as the sequence of its values
RangeStep(n, step) == [k \in 1..((n + step - 1) \div step) |-> (k - 1) * step]

\* a slice that overlaps the next group by one entry
Slice_one_more(seq, i, items) == SubSeq(seq, i + 1, Min(i + items + 1, Len(seq)))

\* seq[i:i+items] for a 0-based i >= 0 and items > 0
Slice(seq, i, items) == SubSeq(seq, i + 1, Min(i + items, Len(seq)))

\* [seq[i:i+items_per_list] for i in range(0, n, items_per_list)];
\* a negative step gives an empty range
Chunks(seq, n, items_per_list) ==
    IF items_per_list < 0
    THEN <<>>
    ELSE LET starts == RangeStep(n, items_per_list)
         IN [g \in DOMAIN starts |-> Slice(seq, starts[g], items_per_list)]

\* what get_filetype may answer: a file-type tag and an index extension, None
\* or empty when the type has no index
FiletypeResults ==
    { [ftype |-> <<"c", "r", "a", "m">>, idx_ext |-> Str(<<"c", "r", "a", "i">>)],
      [ftype |-> <<"b", "a", "m">>, idx_ext |-> Str(<<"b", "a", "i">>)],
      [ftype |-> <<"v", "c", "f">>, idx_ext |-> None],
      [ftype |-> <<"f", "q">>, idx_ext |-> Str(<<>>)] }

\* Python's truth value of idx_ext
Truthy(x) == IsStr(x) /\ Val(x) # <<>>

Raised(what) == [status |-> "raised", error |-> what]

group_inputs(filenames, items_per_list, ft) ==
    IF items_per_list = 0
    THEN Raised("ValueError")
    ELSE
    LET n == Len(filenames)
        grouped_inputs == List([g \in DOMAIN Chunks(filenames, n, items_per_list) |->
                                   StrList(Chunks(filenames, n, items_per_list)[g])])
        grouped_input_paths == prepend_path(grouped_inputs, ft.ftype \o <<"s", "/">>)
        subjects == basename(grouped_inputs)
        idx_filenames == [i \in DOMAIN filenames |->
                             filenames[i] \o <<".">> \o Val(ft.idx_ext)]
        grouped_idx == List([g \in DOMAIN Chunks(idx_filenames, n, items_per_list) |->
                                StrList(Chunks(idx_filenames, n, items_per_list)[g])])
        grouped_idx_paths ==
            IF Truthy(ft.idx_ext)
            THEN prepend_path(grouped_idx, ft.ftype \o <<"s", "i", "d", "x", "/">>)
            ELSE None
    IN [status |-> "returned",
        subjects |-> subjects,
        grouped_input_paths |-> grouped_input_paths,
        grouped_idx_paths |-> grouped_idx_paths]

(***************************************************************************)
(* Files: open(name, "r") of a missing file raises, iterating a file gives *)
(* its lines with their "\n" kept, and a set is written in any order.      *)
(***************************************************************************)
NoFile == <<"NoFile">>

Exists(file) == file # NoFile

FirstIndex(s, ch) ==
    LET P == {i \in DOMAIN s : s[i] = ch}
    IN IF P = {} THEN 0 ELSE CHOOSE k \in P : \A m \in P : k <= m

\* file.readlines(), and the lines of "for line in file"
RECURSIVE readlines(_)
readlines(text) ==
    IF text = <<>>
    THEN <<>>
    ELSE LET nl == FirstIndex(text, "\n")
         IN IF nl = 0
            THEN <<text>>
            ELSE <<SubSeq(text, 1, nl)>> \o readlines(SubSeq(text, nl + 1, Len(text)))

\* file.writelines(lines) into an empty file
RECURSIVE Join(_)
Join(lines) == IF lines = <<>> THEN <<>> ELSE Head(lines) \o Join(Tail(lines))

\* the orders in which the elements of a Python set may be iterated
RECURSIVE Orders(_)
Orders(S) ==
    IF S = {}
    THEN {<<>>}
    ELSE UNION {{<<x>> \o o : o \in Orders(S \ {x})} : x \in S}

\* a line without its line end
Chomp(line) ==
    IF line # <<>> /\ line[Len(line)] = "\n"
    THEN SubSeq(line, 1, Len(line) - 1)
    ELSE line

\* the set of lines of a text, line ends left out
LineSet(text) == {Chomp(l) : l \in Range(readlines(text))}

FailedFile == "failed.txt"

FailedRunsFile == "failed_runs.txt"

FileNames == {FailedFile, FailedRunsFile}

(***************************************************************************)
(* The object store: list_objects_v2 answers the keys with the prefix in   *)
(* the order of their characters' codes, all of them in one page.          *)
(***************************************************************************)
CharOrder ==
    <<"\n", " ", "\"", "-", ".", "/", "0", "1", "2", "3", "4", "5", "6", "7",
      "8", "9", ":", "A", "B", "C", "D", "E", "F", "G", "H", "I", "J", "K",
      "L", "M", "N", "O", "P", "Q", "R", "S", "T", "U", "V", "W", "X", "Y",
      "Z", "_", "a", "b", "c", "d", "e", "f", "g", "h", "i", "j", "k", "l",
      "m", "n", "o", "p", "q", "r", "s", "t", "u", "v", "w", "x", "y", "z",
      "{", "}">>

Code(c) == CHOOSE i \in DOMAIN CharOrder : CharOrder[i] = c

RECURSIVE KeyLess(_, _)
KeyLess(a, b) ==
    IF a = <<>> THEN b # <<>>
    ELSE IF b = <<>> THEN FALSE
    ELSE IF Head(a) = Head(b) THEN KeyLess(Tail(a), Tail(b))
    ELSE Code(Head(a)) < Code(Head(b))

RECURSIVE Sorted(_)
Sorted(K) ==
    IF K = {}
    THEN <<>>
    ELSE LET least == CHOOSE k \in K : \A m \in K \ {k} : KeyLess(k, m)
         IN <<least>> \o Sorted(K \ {least})

\* response['Contents'] of list_objects_v2(Bucket, Prefix), as the keys
list_objects_v2(b, prefix) == Sorted({k \in DOMAIN b : StartsWith(k, prefix)})

put_object(b, key) == [k \in DOMAIN b \cup {key} |-> IF k = key THEN <<>> ELSE b[k]]

copy_object(b, new_key, source) ==
    [k \in DOMAIN b \cup {new_key} |-> IF k = new_key THEN b[source] ELSE b[k]]

delete_object(b, key) == [k \in DOMAIN b \ {key} |-> b[k]]

\* the loop of move_logs_to_root over the listed keys
RECURSIVE MoveEachToRoot(_, _)
MoveEachToRoot(b, keys) ==
    IF keys = <<>>
    THEN b
    ELSE LET file_name == Head(keys)
             new_key == PathBasename(file_name)
         IN MoveEachToRoot(delete_object(copy_object(b, new_key, file_name), file_name),
                           Tail(keys))

move_logs_to_root(jobid_prefix, b) ==
    MoveEachToRoot(b, list_objects_v2(b, jobid_prefix \o <<"/">> \o jobid_prefix \o <<".">>))

\* the loop of move_logs_to_folder over the listed keys
RECURSIVE MoveEachToFolder(_, _, _)
MoveEachToFolder(b, keys, jobid_prefix) ==
    IF keys = <<>>
    THEN b
    ELSE LET file_name == Head(keys)
             new_key == jobid_prefix \o <<"/">> \o file_name
         IN MoveEachToFolder(delete_object(copy_object(b, new_key, file_name), file_name),
                             Tail(keys), jobid_prefix)

move_logs_to_folder(jobid_prefix, b) ==
    LET made == put_object(b, jobid_prefix \o <<"/">>)
    IN MoveEachToFolder(made, list_objects_v2(made, jobid_prefix \o <<".">>), jobid_prefix)

(***************************************************************************)
(* The run auditor.                                                        *)
(***************************************************************************)
PostrunSuffix == <<".", "p", "o", "s", "t", "r", "u", "n", ".", "j", "s", "o", "n">>

Md5Marker == <<"\"", "m", "d", "5", "s", "u", "m", "\"", ":", "\"">>

\* a test for the word md5sum alone
LacksMarker_word_only(content) == ~Contains(content, <<"m", "d", "5", "s", "u", "m">>)

\* the test of a status descriptor: the run did not complete
LacksMarker(content) == ~Contains(content, Md5Marker)

\* failed_job_ids after the loop over the listing
FailedJobIds(b, jobid_prefix) ==
    {SplitFirst(key, PostrunSuffix) :
        key \in {k \in Range(list_objects_v2(b, jobid_prefix \o <<".">>)) :
                    EndsWith(k, PostrunSuffix) /\ LacksMarker(b[k])}}

\* open(name, 'a'), one write(job_id + '\n') for each id in the order given
AppendIds(file, ids) ==
    (IF Exists(file) THEN file ELSE <<>>) \o Join([i \in DOMAIN ids |-> ids[i] \o <<"\n">>])

\* "Remove duplicates from the file": what the file may hold afterwards
DedupOutcomes(text) == {Join(o) : o \in Orders(Range(readlines(text)))}

\* the ledger that file_in_failed reads
AuditLedger_shared == FailedFile

\* the name of the file the failed ids are appended to and deduplicated in
AuditLedger == FailedRunsFile

\* every outcome of process_postrun_files(jobid_prefix, outbucket): the store,
\* the files and the set failed_job_ids
process_postrun_files(jobid_prefix, b, files) ==
    LET atRoot == move_logs_to_root(jobid_prefix, b)
        failed_job_ids == FailedJobIds(atRoot, jobid_prefix)
        inFolder == move_logs_to_folder(jobid_prefix, atRoot)
    IN { [bucket |-> inFolder,
          fs |-> [files EXCEPT ![AuditLedger] = written],
          failed_job_ids |-> failed_job_ids] :
         written \in UNION {DedupOutcomes(AppendIds(files[AuditLedger], ids)) :
                              ids \in Orders(failed_job_ids)} }

(***************************************************************************)
(* The exclusion oracle.                                                   *)
(***************************************************************************)
\* file_in_failed(subject), "failed.txt" being there
file_in_failed(subject, files) ==
    \E line \in Range(readlines(files[FailedFile])) : Strip(line) = subject

Letters ==
    {"A", "B", "C", "D", "E", "F", "G", "H", "I", "J", "K", "L", "M", "N", "O",
     "P", "Q", "R", "S", "T", "U", "V", "W", "X", "Y", "Z", "a", "b", "c", "d",
     "e", "f", "g", "h", "i", "j", "k", "l", "m", "n", "o", "p", "q", "r", "s",
     "t", "u", "v", "w", "x", "y", "z"}

Digits == {"0", "1", "2", "3", "4", "5", "6", "7", "8", "9"}

\* the length of the longest run of characters of class C in s from position i
RECURSIVE RunLength(_, _, _)
RunLength(s, i, C) ==
    IF i <= Len(s) /\ s[i] \in C THEN 1 + RunLength(s, i + 1, C) ELSE 0

\* the last position of the match of [A-Za-z-]+RS[\d-]+(?<!-) that starts at i,
\* 0 if there is none: both runs are greedy and give back one character at a
\* time, the first before the second
MatchEnd(s, i) ==
    LET m == RunLength(s, i, Letters \cup {"-"})
        \* the ends a first run of length k allows, the longest digit run first
        Ends(k) ==
            IF i + k + 1 <= Len(s) /\ s[i + k] = "R" /\ s[i + k + 1] = "S"
            THEN {i + k + 1 + n : n \in {d \in 1..RunLength(s, i + k + 2, Digits \cup {"-"}) :
                                           s[i + k + 1 + d] # "-"}}
            ELSE {}
        K == {k \in 1..m : Ends(k) # {}}
    IN IF K = {}
       THEN 0
       ELSE LET k == CHOOSE x \in K : \A y \in K : y <= x
            IN CHOOSE e \in Ends(k) : \A f \in Ends(k) : f <= e

\* pattern.findall(string) from position i on
RECURSIVE FindAll(_, _)
FindAll(s, i) ==
    IF i > Len(s)
    THEN <<>>
    ELSE IF MatchEnd(s, i) = 0
         THEN FindAll(s, i + 1)
         ELSE <<SubSeq(s, i, MatchEnd(s, i))>> \o FindAll(s, MatchEnd(s, i) + 1)

extract_subjects(string) == FindAll(string, 1)

OutPrefix == <<"/", "m", "n", "t", "/", "d", "a", "t", "a", "1", "/", "o", "u", "t", "/">>

get_subject_completed_set(outbucket) ==
    UNION {Range(extract_subjects(key)) :
              key \in {k \in Range(list_objects_v2(outbucket, OutPrefix)) :
                          EndsWith(k, <<".", "t", "a", "r">>)}}

(***************************************************************************)
(* The batch selector.                                                     *)
(***************************************************************************)
\* a loop that ends one entry late
BatchFull_one_late(locations, batch_size) == Len(locations) = batch_size + 1

\* the test that ends the loop over the rows
BatchFull(locations, batch_size) == Len(locations) = batch_size

\* the loop over the rows from row i on, locations being the list so far
RECURSIVE ScanRows(_, _, _, _, _, _, _)
ScanRows(rows, i, locations, batch_size, completed_set, exclude_failed, files) ==
    IF i > Len(rows)
    THEN [status |-> "returned", locations |-> locations]
    ELSE IF rows[i].Subject \notin completed_set
                /\ exclude_failed /\ ~Exists(files[FailedFile])
         THEN Raised("FileNotFoundError")
         ELSE LET next ==
                      IF rows[i].Subject \notin completed_set
                            /\ ~(exclude_failed /\ file_in_failed(rows[i].Subject, files))
                      THEN Append(locations, rows[i].location)
                      ELSE locations
              IN IF BatchFull(next, batch_size)
                 THEN [status |-> "returned", locations |-> next]
                 ELSE ScanRows(rows, i + 1, next, batch_size, completed_set,
                               exclude_failed, files)

\* a cut that keeps the remainder instead of dropping it
Aligned_keeps_remainder(locations, cores_per_inst) ==
    SliceTo(locations, PyMod(Len(locations), cores_per_inst))

\* locations[:len(locations) - (len(locations) % cores_per_inst)], cores_per_inst # 0
Aligned(locations, cores_per_inst) ==
    SliceTo(locations, Len(locations) - PyMod(Len(locations), cores_per_inst))

resolve_inputs(rows, batch_size, outbucket, cores_per_inst, allow_existing, exclude_failed, files) ==
    LET completed_set == IF ~allow_existing THEN get_subject_completed_set(outbucket) ELSE {}
        scan == ScanRows(rows, 1, <<>>, batch_size, completed_set, exclude_failed, files)
    IN IF scan.status = "raised"
       THEN scan
       ELSE IF cores_per_inst = 0
            THEN Raised("ZeroDivisionError")
            ELSE LET locations == Aligned(scan.locations, cores_per_inst)
                 IN [status |-> "returned",
                     locations |-> locations,
                     filenames |-> [i \in DOMAIN locations |-> SplitLast(locations[i])]]

(***************************************************************************)
(* The caller: one call at a time, each returning before the next.         *)
(***************************************************************************)
NoCall == [name |-> "none"]

NoRet == [status |-> "none"]

Idle == call.name = "none"

SeqsUpTo(S, n) == UNION {[1..k -> S] : k \in 0..n}

NoObjects == [k \in {} |-> <<>>]

NoFiles == [f \in FileNames |-> NoFile]

Return ==
    /\ ~Idle
    /\ call' = NoCall
    /\ ret' = NoRet
    /\ UNCHANGED <<manifest, fs, bucket>>

\* resolve_inputs(csv_file, batch_size, outbucket, cores_per_inst, ...) on the
\* manifest, the store and the files as they are
ResolveCall(BatchSizes, CoreCounts) ==
    /\ Idle
    /\ \E batch_size \in BatchSizes, cores_per_inst \in CoreCounts,
          allow_existing \in BOOLEAN, exclude_failed \in BOOLEAN :
          /\ call' = [name |-> "resolve_inputs", batch_size |-> batch_size,
                      cores_per_inst |-> cores_per_inst,
                      allow_existing |-> allow_existing,
                      exclude_failed |-> exclude_failed]
          /\ ret' = resolve_inputs(manifest, batch_size, bucket, cores_per_inst,
                                   allow_existing, exclude_failed, fs)
    /\ UNCHANGED <<manifest, fs, bucket>>

\* group_inputs(filenames, items_per_list), get_filetype answering ft
GroupCall ==
    /\ Idle
    /\ \E filenames \in SeqsUpTo({ <<"a", ".", "c", "r", "a", "m">>, <<"d", "/", "b", ".", "c", "r", "a", "m">>, <<"c">>, <<".", "h">>, <<"e", ".", "f", ".", "b", "a", "m">> }, MaxFiles),
          items_per_list \in (0 - 1)..MaxItems,
          ft \in FiletypeResults :
          /\ call' = [name |-> "group_inputs", filenames |-> filenames,
                      items_per_list |-> items_per_list, ft |-> ft]
          /\ ret' = group_inputs(filenames, items_per_list, ft)
    /\ UNCHANGED <<manifest, fs, bucket>>

JobPrefixes == { <<"p">>, <<"p", "x">> }

\* process_postrun_files(jobid_prefix, outbucket)
AuditCall ==
    /\ Idle
    /\ \E jobid_prefix \in JobPrefixes :
          \E out \in process_postrun_files(jobid_prefix, bucket, fs) :
              /\ bucket' = out.bucket
              /\ fs' = out.fs
              /\ call' = [name |-> "process_postrun_files", jobid_prefix |-> jobid_prefix]
              /\ ret' = [status |-> "returned", failed_job_ids |-> out.failed_job_ids]
    /\ UNCHANGED manifest

\* the duplicate removal of process_postrun_files alone, call.seen being the
\* texts the file held before each run
DedupStep ==
    /\ call.name = "dedup"
    /\ Len(call.seen) < MaxRuns
    /\ \E written \in DedupOutcomes(fs[AuditLedger]) :
          fs' = [fs EXCEPT ![AuditLedger] = written]
    /\ call' = [call EXCEPT !.seen = Append(@, fs[AuditLedger])]
    /\ UNCHANGED <<manifest, bucket, ret>>

(***************************************************************************)
(* The batch selector on every manifest, store and failed.txt.             *)
(***************************************************************************)
RowA == [location |-> <<"b", "/", "A", "-", "R", "S", "1", ".", "c", "r", "a", "m">>, Subject |-> <<"A", "-", "R", "S", "1">>]

RowB == [location |-> <<"b", "/", "c", "/", "B", "-", "R", "S", "2", ".", "c", "r", "a", "m">>, Subject |-> <<"B", "-", "R", "S", "2">>]

\* a Subject that ends in a space, as csv.DictReader reads "C-RS3.cram,C-RS3 "
RowC == [location |-> <<"C", "-", "R", "S", "3", ".", "c", "r", "a", "m">>, Subject |-> <<"C", "-", "R", "S", "3", " ">>]

SelectRows == {RowA, RowB, RowC}

\* A-RS1 is completed; the other two keys are no archive under the prefix
CompletedStore ==
    [k \in { <<"/", "m", "n", "t", "/", "d", "a", "t", "a", "1", "/", "o", "u", "t", "/", "x", "_", "A", "-", "R", "S", "1", "-", ".", "t", "a", "r">>, <<"/", "m", "n", "t", "/", "d", "a", "t", "a", "1", "/", "o", "u", "t", "/", "B", "-", "R", "S", "2", ".", "t", "x", "t">>,
             <<"o", "u", "t", "/", "B", "-", "R", "S", "2", ".", "t", "a", "r">> } |-> <<>>]

SelectFailedTexts == {NoFile, <<"B", "-", "R", "S", "2", "\n">>, <<" ", "A", "-", "R", "S", "1", " ", "\n", "C", "-", "R", "S", "3", " ">>}

InitSelect ==
    /\ manifest \in SeqsUpTo(SelectRows, MaxRows)
    /\ fs \in {[NoFiles EXCEPT ![FailedFile] = text] : text \in SelectFailedTexts}
    /\ bucket \in {NoObjects, CompletedStore}
    /\ call = NoCall
    /\ ret = NoRet

NextSelect == ResolveCall((0 - 1)..MaxBatch, (0 - NegCores)..MaxCores) \/ Return

SpecSelect == InitSelect /\ [][NextSelect]_vars

(***************************************************************************)
(* The grouping engine on every list of file names.                        *)
(***************************************************************************)
InitGroup ==
    /\ manifest = <<>>
    /\ fs = NoFiles
    /\ bucket = NoObjects
    /\ call = NoCall
    /\ ret = NoRet

NextGroup == GroupCall \/ Return

SpecGroup == InitGroup /\ [][NextGroup]_vars

(***************************************************************************)
(* The run auditor and the batch selector on one store and one pair of     *)
(* files.  failed_runs.txt starts missing or as the auditor leaves it,     *)
(* every line ended by "\n".                                               *)
(***************************************************************************)
Succeeded == <<"{", "\"", "m", "d", "5", "s", "u", "m", "\"", ":", "\"", "a", "\"", "}">>

NoMarker == <<"{", "\"", "o", "\"", ":", "1", "}">>

\* the key and the value apart: not the marker
SpacedMarker == <<"{", "\"", "m", "d", "5", "s", "u", "m", "\"", ":", " ", "\"", "a", "\"", "}">>

\* a descriptor at the root and one of the same name in the folder, which
\* move_logs_to_root copies over it; a log; a descriptor of the prefix px; a
\* key that holds the suffix twice; a descriptor in the folder alone
AuditKeys ==
    { <<"p", ".", "j", "1", ".", "p", "o", "s", "t", "r", "u", "n", ".", "j", "s", "o", "n">>, <<"p", "/", "p", ".", "j", "1", ".", "p", "o", "s", "t", "r", "u", "n", ".", "j", "s", "o", "n">>, <<"p", ".", "j", "1", ".", "l", "o", "g">>,
      <<"p", "x", ".", "j", "3", ".", "p", "o", "s", "t", "r", "u", "n", ".", "j", "s", "o", "n">>, <<"p", ".", "j", "4", ".", "p", "o", "s", "t", "r", "u", "n", ".", "j", "s", "o", "n", ".", "p", "o", "s", "t", "r", "u", "n", ".", "j", "s", "o", "n">>,
      <<"p", "/", "p", ".", "j", "2", ".", "p", "o", "s", "t", "r", "u", "n", ".", "j", "s", "o", "n">> }

AuditStores ==
    UNION {[K -> {Succeeded, NoMarker, SpacedMarker}] :
              K \in {S \in SUBSET AuditKeys : Cardinality(S) <= MaxObjects}}

\* a manifest whose Subjects are job identifiers
RowJ1 == [location |-> <<"b", "/", "j", "1", ".", "c", "r", "a", "m">>, Subject |-> <<"p", ".", "j", "1">>]

RowJ3 == [location |-> <<"b", "/", "j", "3", ".", "c", "r", "a", "m">>, Subject |-> <<"p", "x", ".", "j", "3">>]

InitAudit ==
    /\ manifest = <<RowJ1, RowJ3>>
    /\ fs \in {[f \in FileNames |-> IF f = FailedFile THEN <<"p", "x", ".", "j", "3", "\n">> ELSE runs] :
                  runs \in {NoFile, <<"o", "l", "d", "\n">>}}
    /\ bucket \in AuditStores
    /\ call = NoCall
    /\ ret = NoRet

NextAudit == AuditCall \/ ResolveCall({MaxBatch}, {1}) \/ Return

SpecAudit == InitAudit /\ [][NextAudit]_vars

(***************************************************************************)
(* The duplicate removal run MaxRuns times on every text of the ledger.    *)
(***************************************************************************)
\* the texts of up to MaxLedgerLines lines, the last one ended by "\n" or not
LedgerTexts ==
    {Join([i \in DOMAIN lines |->
              IF i < Len(lines) \/ ended THEN lines[i] \o <<"\n">> ELSE lines[i]]) :
        lines \in SeqsUpTo({ <<"a">>, <<"b">>, <<"a", "b">> }, MaxLedgerLines), ended \in BOOLEAN}

InitDedup ==
    /\ manifest = <<>>
    /\ fs \in {[NoFiles EXCEPT ![AuditLedger] = text] : text \in LedgerTexts}
    /\ bucket = NoObjects
    /\ call = [name |-> "dedup", seen |-> <<>>]
    /\ ret = NoRet

NextDedup == DedupStep

SpecDedup == InitDedup /\ [][NextDedup]_vars

(***************************************************************************)
(* Properties of the batch selector, checked under SpecSelect.             *)
(***************************************************************************)
Resolved == call.name = "resolve_inputs" /\ ret.status = "returned"

IsPrefix(p, s) == Len(p) <= Len(s) /\ SubSeq(s, 1, Len(p)) = p

\* the Completed-Subject Set of the call: empty when allow_existing
CompletedNow == IF call.allow_existing THEN {} ELSE get_subject_completed_set(bucket)

\* the entries the loop of the call selected, before the cut
SelectedNow ==
    ScanRows(manifest, 1, <<>>, call.batch_size, CompletedNow,
             call.exclude_failed, fs).locations

\* the rows of the manifest with a returned location
ReturnedRows == {i \in DOMAIN manifest : manifest[i].location \in Range(ret.locations)}

\* C1: for a positive cores_per_inst the returned locations are the selected
\* entries without their last len % cores_per_inst ones, nothing else is dropped,
\* and their number is a multiple of cores_per_inst.
C1_LengthIsMultipleOfCores ==
    (Resolved /\ call.cores_per_inst > 0) =>
        /\ Len(ret.locations) % call.cores_per_inst = 0
        /\ IsPrefix(ret.locations, SelectedNow)
        /\ Len(SelectedNow) - Len(ret.locations) \in 0..(call.cores_per_inst - 1)

\* three entries selected, two cores: the third is dropped
C1_Witness ==
    /\ Resolved
    /\ call.cores_per_inst = 2
    /\ Len(SelectedNow) = 3
    /\ Len(ret.locations) = 2

\* C2: for every batch_size >= 0, 0 included, at most batch_size locations are
\* returned (stated for a positive cores_per_inst, where the cut only shortens).
C2_AtMostBatchSize ==
    (Resolved /\ call.batch_size >= 0 /\ call.cores_per_inst >= 1) =>
        Len(ret.locations) <= call.batch_size

\* C3: no returned row has a Subject of the Completed-Subject Set when
\* allow_existing is false, none has a Subject that is a line of failed.txt when
\* exclude_failed is true, and with exclude_failed false (and nothing else in the
\* way) a row whose Subject is a line of failed.txt is returned (stated for
\* batch_size >= 1 and cores_per_inst >= 1).
C3_NoExcludedSubjectReturned ==
    (Resolved /\ call.batch_size >= 1 /\ call.cores_per_inst >= 1) =>
        /\ ~call.allow_existing =>
              \A i \in ReturnedRows : manifest[i].Subject \notin get_subject_completed_set(bucket)
        /\ (call.exclude_failed /\ Exists(fs[FailedFile])) =>
              \A i \in ReturnedRows : manifest[i].Subject \notin LineSet(fs[FailedFile])
        /\ (~call.exclude_failed /\ call.allow_existing /\ call.cores_per_inst = 1
              /\ call.batch_size > Len(manifest)) =>
              \A i \in DOMAIN manifest : i \in ReturnedRows

\* a row is left out by the loop of the call
Excluded(row) ==
    \/ row.Subject \in CompletedNow
    \/ call.exclude_failed /\ Exists(fs[FailedFile]) /\ file_in_failed(row.Subject, fs)

\* the locations of the rows the loop does not leave out, in manifest order
RECURSIVE QualifyingFrom(_)
QualifyingFrom(i) ==
    IF i > Len(manifest)
    THEN <<>>
    ELSE (IF Excluded(manifest[i]) THEN <<>> ELSE <<manifest[i].location>>)
             \o QualifyingFrom(i + 1)

\* name is the text of location after its last "/"
IsLastSegment(name, location) ==
    /\ "/" \notin Range(name)
    /\ \/ location = name
       \/ /\ Len(location) > Len(name)
          /\ SubSeq(location, Len(location) - Len(name), Len(location)) = <<"/">> \o name

C5_NonPositiveCoresRejected ==
    (call.name = "resolve_inputs" /\ call.cores_per_inst <= 0) => ret.status = "raised"

(***************************************************************************)
(* Properties of the grouping engine, checked under SpecGroup.             *)
(***************************************************************************)
Grouped ==
    /\ call.name = "group_inputs"
    /\ call.items_per_list > 0
    /\ ret.status = "returned"

\* the groups of a nested list, each as the sequence of its strings
Groups(nested) == [g \in DOMAIN Val(nested) |->
                      [i \in DOMAIN Val(Val(nested)[g]) |-> Val(Val(Val(nested)[g])[i])]]

RECURSIVE Sum(_)
Sum(ns) == IF ns = <<>> THEN 0 ELSE Head(ns) + Sum(Tail(ns))

RECURSIVE Flatten(_)
Flatten(groups) == IF groups = <<>> THEN <<>> ELSE Head(groups) \o Flatten(Tail(groups))

\* two sequences of groups with as many groups, each as long as its partner
SameShape(A, B) ==
    /\ Len(A) = Len(B)
    /\ \A g \in DOMAIN A : Len(A[g]) = Len(B[g])

\* what is left of a file name without its directories and its extension: the
\* text after the last "/", up to its last "." when something other than "."
\* stands before it
IsLabelOf(label, filename) ==
    \E d \in 0..Len(filename) :
        /\ d = 0 \/ filename[d] = "/"
        /\ \A j \in (d + 1)..Len(filename) : filename[j] # "/"
        /\ LET base == SubSeq(filename, d + 1, Len(filename))
               dots == {j \in DOMAIN base : base[j] = "."}
               last == IF dots = {} THEN 0 ELSE CHOOSE j \in dots : \A m \in dots : m <= j
           IN IF last > 0 /\ \E j \in 1..(last - 1) : base[j] # "."
              THEN label = SubSeq(base, 1, last - 1)
              ELSE label = base

\* C8: grouped_input_paths, subjects and, when an index extension is resolved,
\* grouped_idx_paths have the same number of groups and the same length in each
\* group; the lengths sum to len(filenames); every group but the last holds
\* items_per_list entries; the entry (g, i) of each comes from
\* filenames[g*items_per_list + i]; without an index extension the index output
\* is None.
C8_GroupsShareOneShape ==
    Grouped =>
        LET names == call.filenames
            items == call.items_per_list
            paths == Groups(ret.grouped_input_paths)
            labels == Groups(ret.subjects)
            source(g, i) == names[(g - 1) * items + i]
        IN /\ SameShape(paths, labels)
           /\ Sum([g \in DOMAIN paths |-> Len(paths[g])]) = Len(names)
           /\ \A g \in DOMAIN paths :
                 /\ Len(paths[g]) \in 1..items
                 /\ g < Len(paths) => Len(paths[g]) = items
                 /\ \A i \in DOMAIN paths[g] :
                       /\ paths[g][i] = call.ft.ftype \o <<"s", "/">> \o source(g, i)
                       /\ IsLabelOf(labels[g][i], source(g, i))
           /\ IF Truthy(call.ft.idx_ext)
              THEN LET idx == Groups(ret.grouped_idx_paths)
                   IN /\ SameShape(idx, paths)
                      /\ \A g \in DOMAIN idx : \A i \in DOMAIN idx[g] :
                            idx[g][i] = call.ft.ftype \o <<"s", "i", "d", "x", "/">>
                                           \o source(g, i) \o <<".">> \o Val(call.ft.idx_ext)
              ELSE ret.grouped_idx_paths = None

\* three file names in groups of two with an index extension: a full group and
\* a last group of one
C8_Witness ==
    /\ Grouped
    /\ call.items_per_list = 2
    /\ call.filenames = << <<"a", ".", "c", "r", "a", "m">>, <<"d", "/", "b", ".", "c", "r", "a", "m">>, <<"e", ".", "f", ".", "b", "a", "m">> >>
    /\ Groups(ret.subjects) = << << <<"a">>, <<"b">> >>, << <<"e", ".", "f">> >> >>
    /\ Groups(ret.grouped_idx_paths) =
           << << <<"c", "r", "a", "m", "s", "i", "d", "x", "/", "a", ".", "c", "r", "a", "m", ".", "c", "r", "a", "i">>, <<"c", "r", "a", "m", "s", "i", "d", "x", "/", "d", "/", "b", ".", "c", "r", "a", "m", ".", "c", "r", "a", "i">> >>,
              << <<"c", "r", "a", "m", "s", "i", "d", "x", "/", "e", ".", "f", ".", "b", "a", "m", ".", "c", "r", "a", "i">> >> >>

\* s without the prefix p it starts with
WithoutPrefix(s, p) == SubSeq(s, Len(p) + 1, Len(s))

\* C9: taking the "<filetype>s/" prefix off every entry of grouped_input_paths
\* and concatenating the groups in order gives back filenames.
C9_GroupingRoundTrip ==
    Grouped =>
        LET prefix == call.ft.ftype \o <<"s", "/">>
            paths == Groups(ret.grouped_input_paths)
        IN /\ \A g \in DOMAIN paths : \A i \in DOMAIN paths[g] :
                 StartsWith(paths[g][i], prefix)
           /\ Flatten([g \in DOMAIN paths |->
                          [i \in DOMAIN paths[g] |-> WithoutPrefix(paths[g][i], prefix)]])
                 = call.filenames

\* three groups of one, a file name with a directory among them
C9_Witness ==
    /\ Grouped
    /\ call.items_per_list = 1
    /\ call.filenames = << <<"d", "/", "b", ".", "c", "r", "a", "m">>, <<"c">>, <<"d", "/", "b", ".", "c", "r", "a", "m">> >>
    /\ Groups(ret.grouped_input_paths) =
           << << <<"v", "c", "f", "s", "/", "d", "/", "b", ".", "c", "r", "a", "m">> >>, << <<"v", "c", "f", "s", "/", "c">> >>, << <<"v", "c", "f", "s", "/", "d", "/", "b", ".", "c", "r", "a", "m">> >> >>

(***************************************************************************)
(* Properties of the run auditor, checked under SpecAudit.                 *)
(***************************************************************************)
Audited == call.name = "process_postrun_files"

\* the status descriptors of a job prefix in its folder, where an audit of the
\* prefix leaves them
DescriptorsOf(prefix) ==
    {k \in DOMAIN bucket :
        /\ StartsWith(k, prefix \o <<"/">> \o prefix \o <<".">>)
        /\ EndsWith(k, PostrunSuffix)}

\* the job of a descriptor in the folder of a prefix: its key without the folder,
\* up to the first ".postrun.json"
JobOf(prefix, k) == SplitFirst(SubSeq(k, Len(prefix) + 2, Len(k)), PostrunSuffix)

\* the content does not hold "md5sum":" anywhere
HasNoMd5(content) ==
    \A i \in 1..(Len(content) - 9) :
        SubSeq(content, i, i + 9) # <<"\"", "m", "d", "5", "s", "u", "m", "\"", ":", "\"">>

\* the jobs of a prefix with a descriptor that lacks the success marker
FailedJobsOf(prefix) ==
    {JobOf(prefix, k) : k \in {d \in DescriptorsOf(prefix) : HasNoMd5(bucket[d])}}

\* C7: an audit records a job identifier as failed, and writes it to its ledger,
\* if and only if the store holds a descriptor "<prefix>.<...>.postrun.json" of
\* that job whose content lacks "md5sum":"; a descriptor with the marker records
\* nothing, and the audit returns without raising.
C7_FailedIffMarkerMissing ==
    Audited =>
        /\ ret.status = "returned"
        /\ ret.failed_job_ids = FailedJobsOf(call.jobid_prefix)
        /\ \A job \in ret.failed_job_ids : job \in LineSet(fs[FailedRunsFile])
        /\ \A line \in LineSet(fs[FailedRunsFile]) :
              \/ line = <<"o", "l", "d">>
              \/ \E prefix \in JobPrefixes : line \in FailedJobsOf(prefix)

\* a descriptor with the key and the value of the marker apart, one with the
\* marker and a log without it: the job of the first alone is recorded
C7_Witness ==
    /\ Audited
    /\ call.jobid_prefix = <<"p">>
    /\ DOMAIN bucket = { <<"p", "/">>, <<"p", "/", "p", ".", "j", "1", ".", "p", "o", "s", "t", "r", "u", "n", ".", "j", "s", "o", "n">>, <<"p", "/", "p", ".", "j", "1", ".", "l", "o", "g">>,
                         <<"p", "/", "p", ".", "j", "4", ".", "p", "o", "s", "t", "r", "u", "n", ".", "j", "s", "o", "n", ".", "p", "o", "s", "t", "r", "u", "n", ".", "j", "s", "o", "n">> }
    /\ bucket[ <<"p", "/", "p", ".", "j", "1", ".", "p", "o", "s", "t", "r", "u", "n", ".", "j", "s", "o", "n">> ] = SpacedMarker
    /\ bucket[ <<"p", "/", "p", ".", "j", "1", ".", "l", "o", "g">> ] = NoMarker
    /\ bucket[ <<"p", "/", "p", ".", "j", "4", ".", "p", "o", "s", "t", "r", "u", "n", ".", "j", "s", "o", "n", ".", "p", "o", "s", "t", "r", "u", "n", ".", "j", "s", "o", "n">> ] = Succeeded
    /\ ret.failed_job_ids = { <<"p", ".", "j", "1">> }
    /\ LineSet(fs[FailedRunsFile]) = { <<"o", "l", "d">>, <<"p", ".", "j", "1">> }

\* the identifiers that audits have written to their ledger
Recorded == IF Exists(fs[FailedRunsFile]) THEN LineSet(fs[FailedRunsFile]) ELSE {}

C10_DedupIdempotent ==
    (call.name = "dedup" /\ Len(call.seen) = 2) =>
        /\ LineSet(fs[AuditLedger]) = LineSet(call.seen[2])
        /\ LineSet(call.seen[2]) = LineSet(call.seen[1])

====
